---- MODULE Spec2Model ----
(***************************************************************************)
(* A model of the Gmail MCP server (gmail_server.py) and of its stdio      *)
(* client (gmail_client.py).                                               *)
(*                                                                         *)
(* Three specifications share the variables:                               *)
(*   Spec        the server: tool dispatch, lazy Gmail initialization and  *)
(*               the four tool handlers;                                   *)
(*   SpecClient  the client: connect / disconnect and the tool methods;    *)
(*   SpecBody    the MIME body extraction, applied to bounded part trees.  *)
(* Each specification moves its own variables and leaves the others at     *)
(* their initial values.                                                   *)
(***************************************************************************)
EXTENDS Integers, Sequences, FiniteSets, TLC

VARIABLES
    \* ---- server (GmailMCPServer) ----
    service,        \* self.service: 0 is None, otherwise the handle built by call d
    tokenFile,      \* credentials/token.pickle: NoCreds when absent, else a Creds record
    credsFile,      \* whether credentials/credentials.json exists
    pc,             \* position of each handle_call_tool invocation
    running,        \* the invocation that holds the event loop (0: none)
    cur,            \* locals of the running invocation
    last,           \* what the handler that just finished did and returned
    ranInit,        \* per unfinished invocation: it entered _initialize_gmail
    waited,         \* per unfinished invocation: it was pending while another one initialized
    \* ---- client (GmailMCPClient) ----
    connected,      \* self.connected
    session,        \* self.session: 0 is None, otherwise a session resource id
    exit_stack,     \* self.exit_stack: the contexts entered, oldest first
    open,           \* the transport / session resources currently open
    handshaken,     \* the sessions whose initialize() completed
    connPc,         \* position of the connect() coroutine
    connAttempts,   \* connect() calls made so far
    discPc,         \* position of the disconnect() coroutine
    lifecycle,      \* Disconnected / Ready / Closed, by the outcomes of connect and disconnect
    closedOnce,     \* disconnect() has returned at least once
    readyToClosed,  \* number of Ready -> Closed transitions so far
    disconnects,    \* disconnect() calls that have returned
    lastOp,         \* the connect() / disconnect() call that returned last
    calls,          \* per tool-method call: its position and the session it went out on
    lastCall,       \* the last thing a tool method did: rejected, sent or returned
    \* ---- body extraction ----
    payload,        \* the message payload handed to _extract_body
    body            \* what _extract_body returned ("unset" before the call)

serverVars == <<service, tokenFile, credsFile, pc, running, cur, last, ranInit,
                waited>>
clientVars == <<connected, session, exit_stack, open, handshaken, connPc,
                connAttempts, discPc, lifecycle, closedOnce, readyToClosed, disconnects, lastOp,
                calls, lastCall>>
bodyVars   == <<payload, body>>
vars       == <<serverVars, clientVars, bodyVars>>

(***************************************************************************)
(* Bounds.                                                                 *)
(***************************************************************************)
MaxCalls == 2       \* handle_call_tool invocations per behaviour
MaxList == 2        \* message ids the backend knows; longest listing
MaxConnects == 2    \* connect() calls on the client per behaviour
MaxToolCalls == 2   \* tool-method calls on the client per behaviour
MaxParts == 4       \* parts of a message payload, the payload itself included
MaxDisconnects == 2  \* disconnect() calls on the client

Calls == 1..MaxCalls
MsgIds == 1..MaxList

Min(a, b) == IF a <= b THEN a ELSE b
Max(a, b) == IF a >= b THEN a ELSE b

(***************************************************************************)
(* Credentials (google.oauth2.credentials.Credentials), as the fields      *)
(* _initialize_gmail reads: valid, expired, refresh_token.  valid is       *)
(* "has a token and is not expired", so a valid object is never expired.   *)
(***************************************************************************)
NoCreds == [present |-> FALSE, valid |-> FALSE, expired |-> FALSE, refresh_token |-> FALSE]

Creds(v, e, r) == [present |-> TRUE, valid |-> v, expired |-> e, refresh_token |-> r]

CredsSet == { Creds(v, e, r) : v \in BOOLEAN, e \in BOOLEAN, r \in BOOLEAN } \
            { Creds(TRUE, TRUE, r) : r \in BOOLEAN }

\* gmail_server.py:153  `not creds or not creds.valid`
NeedsAuth(c) == ~c.present \/ ~c.valid

\* gmail_server.py:154  `creds and creds.expired and creds.refresh_token`
Refreshable(c) == c.present /\ c.expired /\ c.refresh_token

(***************************************************************************)
(* Text.  A str is a sequence of code points, a bytes object a sequence of *)
(* 0..255, and base64 data a sequence of one-character strings.            *)
(***************************************************************************)
\* The URL-safe base64 alphabet, in value order (base64.urlsafe_b64decode).
B64Alphabet == <<
    "A", "B", "C", "D", "E", "F", "G", "H", "I", "J", "K", "L", "M", "N", "O", "P",
    "Q", "R", "S", "T", "U", "V", "W", "X", "Y", "Z", "a", "b", "c", "d", "e", "f",
    "g", "h", "i", "j", "k", "l", "m", "n", "o", "p", "q", "r", "s", "t", "u", "v",
    "w", "x", "y", "z", "0", "1", "2", "3", "4", "5", "6", "7", "8", "9", "-", "_"
    >>

\* urlsafe_b64decode translates "-" and "_" to "+" and "/" and then decodes
\* with the standard alphabet, so "+" and "/" are accepted as well.
B64Value(ch) ==
    IF ch = "+" THEN 62
    ELSE IF ch = "/" THEN 63
    ELSE (CHOOSE i \in 1..64 : B64Alphabet[i] = ch) - 1

IsB64Char(ch) == ch \in {"+", "/"} \/ \E i \in 1..64 : B64Alphabet[i] = ch

RECURSIVE B64Sextets(_)
\* The 6-bit values of the data characters before the padding; characters
\* outside the alphabet are discarded, as the non-validating decoder does.
B64Sextets(data) ==
    IF data = <<>> THEN <<>>
    ELSE IF data[1] = "=" THEN <<>>
    ELSE IF IsB64Char(data[1]) THEN <<B64Value(data[1])>> \o B64Sextets(Tail(data))
    ELSE B64Sextets(Tail(data))

RECURSIVE B64Significant(_)
\* How many characters of the data count towards its length (alphabet and "=").
B64Significant(data) ==
    IF data = <<>> THEN 0
    ELSE (IF data[1] = "=" \/ IsB64Char(data[1]) THEN 1 ELSE 0) + B64Significant(Tail(data))

RECURSIVE B64Bytes(_)
\* Four sextets give three bytes; a last group of three gives two, of two one.
B64Bytes(sx) ==
    IF Len(sx) < 2 THEN <<>>
    ELSE IF Len(sx) = 2 THEN <<(sx[1] * 4 + (sx[2] \div 16)) % 256>>
    ELSE IF Len(sx) = 3
         THEN <<(sx[1] * 4 + (sx[2] \div 16)) % 256,
                ((sx[2] % 16) * 16 + (sx[3] \div 4)) % 256>>
    ELSE <<(sx[1] * 4 + (sx[2] \div 16)) % 256,
           ((sx[2] % 16) * 16 + (sx[3] \div 4)) % 256,
           ((sx[3] % 4) * 64 + sx[4]) % 256>>
         \o B64Bytes(SubSeq(sx, 5, Len(sx)))

\* base64.urlsafe_b64decode: [raised, bytes].  binascii.Error ("Incorrect
\* padding") when the length is no multiple of four or one sextet is left over.
urlsafe_b64decode(data) ==
    LET sx == B64Sextets(data) IN
    IF B64Significant(data) % 4 # 0 \/ Len(sx) % 4 = 1
    THEN [raised |-> TRUE, bytes |-> <<>>]
    ELSE [raised |-> FALSE, bytes |-> B64Bytes(sx)]

IsCont(b) == b >= 128 /\ b <= 191

RECURSIVE Utf8Decode(_)
\* bytes.decode('utf-8'), strict: [raised, text].  UnicodeDecodeError on a
\* stray continuation byte, a truncated or overlong sequence, a surrogate or a
\* code point above U+10FFFF.
Utf8Decode(bs) ==
    IF bs = <<>> THEN [raised |-> FALSE, text |-> <<>>]
    ELSE
      LET b1 == bs[1]
          n  == IF b1 < 128 THEN 1
                ELSE IF b1 >= 194 /\ b1 <= 223 THEN 2
                ELSE IF b1 >= 224 /\ b1 <= 239 THEN 3
                ELSE IF b1 >= 240 /\ b1 <= 244 THEN 4
                ELSE 0
          wellFormed ==
              /\ n > 0
              /\ Len(bs) >= n
              /\ \A k \in 2..n : IsCont(bs[k])
              /\ (b1 = 224 => bs[2] >= 160)
              /\ (b1 = 237 => bs[2] <= 159)
              /\ (b1 = 240 => bs[2] >= 144)
              /\ (b1 = 244 => bs[2] <= 143)
          cp == IF n = 1 THEN b1
                ELSE IF n = 2 THEN (b1 % 32) * 64 + (bs[2] % 64)
                ELSE IF n = 3 THEN (b1 % 16) * 4096 + (bs[2] % 64) * 64 + (bs[3] % 64)
                ELSE (b1 % 8) * 262144 + (bs[2] % 64) * 4096 + (bs[3] % 64) * 64
                     + (bs[4] % 64)
      IN IF ~wellFormed THEN [raised |-> TRUE, text |-> <<>>]
         ELSE LET rest == Utf8Decode(SubSeq(bs, n + 1, Len(bs)))
              IN IF rest.raised THEN rest
                 ELSE [raised |-> FALSE, text |-> <<cp>> \o rest.text]

\* The code points str.strip() removes (str.isspace).
IsSpace(c) ==
    \/ c \in 9..13
    \/ c \in 28..32
    \/ c \in {133, 160, 5760, 8232, 8233, 8239, 8287, 12288}
    \/ c \in 8192..8202

RECURSIVE LStrip(_)
LStrip(t) == IF t # <<>> /\ IsSpace(t[1]) THEN LStrip(Tail(t)) ELSE t

RECURSIVE RStrip(_)
RStrip(t) == IF t # <<>> /\ IsSpace(t[Len(t)]) THEN RStrip(SubSeq(t, 1, Len(t) - 1)) ELSE t

\* str.rstrip() in the place of str.strip()
StripMutant(t) == RStrip(t)

\* str.strip()
Strip(t) == RStrip(LStrip(t))

\* gmail_server.py:292-294 / 303-305
\* base64.urlsafe_b64decode(data).decode('utf-8'): [raised, text]
DecodeData(data) ==
    LET b == urlsafe_b64decode(data) IN
    IF b.raised THEN [raised |-> TRUE, text |-> <<>>] ELSE Utf8Decode(b.bytes)

(***************************************************************************)
(* Message payloads (the Gmail API's MessagePart): a part has a mimeType,  *)
(* and either child parts ('parts' in part) or a body that may carry       *)
(* inline data ('data' in part['body']).                                   *)
(***************************************************************************)
Leaf(mime, hasData, data) ==
    [mimeType |-> mime, hasParts |-> FALSE, parts |-> <<>>,
     hasData |-> hasData, data |-> data]

Multipart(mime, parts) ==
    [mimeType |-> mime, hasParts |-> TRUE, parts |-> parts,
     hasData |-> FALSE, data |-> <<>>]

Returned(text) == [raised |-> FALSE, text |-> text]

RECURSIVE ExtractBodyMutant(_)
\* _extract_body with the `if body:` test of line 298 dropped: the scan stops
\* at the first nested multipart, whatever it yielded.
ExtractBodyMutant(p) ==
    LET RECURSIVE Scan(_, _)
        Scan(parts, i) ==
            IF i > Len(parts) THEN Returned(<<>>)
            ELSE IF parts[i].mimeType = "text/plain"
                 THEN IF parts[i].hasData THEN DecodeData(parts[i].data)
                      ELSE Scan(parts, i + 1)
            ELSE IF parts[i].hasParts THEN ExtractBodyMutant(parts[i])
            ELSE Scan(parts, i + 1)
        raw == IF p.hasParts THEN Scan(p.parts, 1)
               ELSE IF p.mimeType = "text/plain" /\ p.hasData THEN DecodeData(p.data)
               ELSE Returned(<<>>)
    IN IF raw.raised THEN raw ELSE Returned(Strip(raw.text))

RECURSIVE ExtractBody(_)
\* GmailMCPServer._extract_body: [raised, text].  Scan is the for loop of
\* lines 289-299, from part i on; a decoding error propagates.
ExtractBody(p) ==
    LET RECURSIVE Scan(_, _)
        Scan(parts, i) ==
            IF i > Len(parts) THEN Returned(<<>>)
            ELSE IF parts[i].mimeType = "text/plain"
                 THEN IF parts[i].hasData THEN DecodeData(parts[i].data)
                      ELSE Scan(parts, i + 1)
            ELSE IF parts[i].hasParts
                 THEN LET sub == ExtractBody(parts[i])
                      IN IF sub.raised \/ sub.text # <<>> THEN sub
                         ELSE Scan(parts, i + 1)
            ELSE Scan(parts, i + 1)
        raw == IF p.hasParts THEN Scan(p.parts, 1)
               ELSE IF p.mimeType = "text/plain" /\ p.hasData THEN DecodeData(p.data)
               ELSE Returned(<<>>)
    IN IF raw.raised THEN raw ELSE Returned(Strip(raw.text))

(***************************************************************************)
(* The mail backend.  What users().messages().get() returns for a message  *)
(* id is fixed per id; whether a call succeeds is chosen per call.         *)
(***************************************************************************)
DataHello  == <<"S", "G", "V", "s", "b", "G", "8", "=">>   \* "Hello"
DataNlI    == <<"C", "m", "k", "=">>                       \* "\ni"
DataSpace  == <<"I", "A", "=", "=">>                       \* " "
DataLatin1 == <<"4", "w", "=", "=">>                       \* byte E3: Latin-1, not UTF-8

\* Message 1 is the multipart message of the specification's example, message 2
\* a text/plain message in Latin-1, every other one a plain "Hello".
MessagePayload(m) ==
    IF m = 1
    THEN Multipart("multipart/mixed",
                   <<Multipart("multipart/alternative", <<Leaf("text/html", TRUE, DataHello)>>),
                     Leaf("text/plain", TRUE, DataNlI)>>)
    ELSE IF m = 2 THEN Leaf("text/plain", TRUE, DataLatin1)
    ELSE Leaf("text/plain", TRUE, DataHello)

(***************************************************************************)
(* Tool payloads: the dict a handler returns, as the set of its keys and   *)
(* the values the claims read.                                             *)
(***************************************************************************)
ToolNames == <<"get_recent_emails", "get_unread_emails", "search_emails", "get_email_details">>
UnknownTool == "no_such_tool"
BulkTools == {"get_recent_emails", "get_unread_emails", "search_emails"}

DefaultRecentCount == 5
DefaultUnreadCount == 10
DefaultSearchCount == 10

EmailKeys == {"id", "thread_id", "from", "to", "subject", "date", "body", "snippet", "labels"}

NoEmail == [id |-> 0, body |-> <<>>]

\* An {error} payload that also claims success.
ErrorPayloadMutant(msg) ==
    [keys |-> {"error", "success"}, error |-> msg, tool |-> "", success |-> TRUE,
     count |-> 0, emails |-> <<>>, email |-> NoEmail]

ErrorPayload(msg) ==
    [keys |-> {"error"}, error |-> msg, tool |-> "", success |-> FALSE,
     count |-> 0, emails |-> <<>>, email |-> NoEmail]

EmailPayload(m, text) ==
    [keys |-> EmailKeys, error |-> "", tool |-> "", success |-> FALSE,
     count |-> 0, emails |-> <<>>, email |-> [id |-> m, body |-> text]]

BulkPayload(tool, keys, emails) ==
    [keys |-> keys, error |-> "", tool |-> tool, success |-> TRUE,
     count |-> Len(emails), emails |-> emails, email |-> NoEmail]

\* GmailMCPServer._get_email_details.  apiOk: the ids whose messages().get()
\* succeeds; the empty default id (0) names no message.
GetEmailDetails(message_id, apiOk) ==
    IF message_id \notin apiOk THEN ErrorPayload("Erro ao buscar email")
    ELSE LET b == ExtractBody(MessagePayload(message_id))
         IN IF b.raised THEN ErrorPayload("Erro ao buscar email")
            ELSE EmailPayload(message_id, b.text)

RECURSIVE CollectEmailsMutant(_, _)
\* The loop with `break` at the first failed detail fetch.
CollectEmailsMutant(ids, apiOk) ==
    IF ids = <<>> THEN <<>>
    ELSE LET email_data == GetEmailDetails(ids[1], apiOk)
         IN IF "error" \notin email_data.keys
            THEN <<email_data.email>> \o CollectEmailsMutant(Tail(ids), apiOk)
            ELSE <<>>

RECURSIVE CollectEmails(_, _)
\* The loop of lines 186-189 (211-214, 236-239): the details of each listed
\* id, appended unless they are an error payload.
CollectEmails(ids, apiOk) ==
    IF ids = <<>> THEN <<>>
    ELSE LET email_data == GetEmailDetails(ids[1], apiOk)
         IN (IF "error" \notin email_data.keys THEN <<email_data.email>> ELSE <<>>)
            \o CollectEmails(Tail(ids), apiOk)

\* Python's messages[:count]
PySlice(messages, count) ==
    IF count >= 0 THEN SubSeq(messages, 1, Min(count, Len(messages)))
    ELSE SubSeq(messages, 1, Max(Len(messages) + count, 0))

\* GmailMCPServer._get_recent_emails.  listOk: messages().list() succeeds and
\* returns `listing`.
GetRecentEmails(count, listOk, listing, apiOk) ==
    IF ~listOk THEN ErrorPayload("Erro ao buscar emails recentes")
    ELSE BulkPayload("get_recent_emails", {"tool", "success", "count", "emails"},
                     CollectEmails(PySlice(listing, count), apiOk))

\* GmailMCPServer._get_unread_emails
GetUnreadEmails(count, listOk, listing, apiOk) ==
    IF ~listOk THEN ErrorPayload("Erro ao buscar emails nao lidos")
    ELSE BulkPayload("get_unread_emails", {"tool", "success", "count", "emails"},
                     CollectEmails(listing, apiOk))

\* GmailMCPServer._search_emails
SearchEmails(count, listOk, listing, apiOk) ==
    IF ~listOk THEN ErrorPayload("Erro na busca")
    ELSE BulkPayload("search_emails", {"tool", "query", "success", "count", "emails"},
                     CollectEmails(listing, apiOk))

\* The try block of handle_call_tool (lines 113-134): the payload for a tool
\* name and its arguments.  An absent count takes the tool's default.
DispatchTool(name, hasCount, count, message_id, listOk, listing, apiOk) ==
    IF name = "get_recent_emails"
    THEN GetRecentEmails(IF hasCount THEN count ELSE DefaultRecentCount, listOk, listing, apiOk)
    ELSE IF name = "get_unread_emails"
    THEN GetUnreadEmails(IF hasCount THEN count ELSE DefaultUnreadCount, listOk, listing, apiOk)
    ELSE IF name = "search_emails"
    THEN SearchEmails(IF hasCount THEN count ELSE DefaultSearchCount, listOk, listing, apiOk)
    ELSE IF name = "get_email_details"
    THEN GetEmailDetails(message_id, apiOk)
    ELSE ErrorPayload("Ferramenta desconhecida")

(***************************************************************************)
(* The server.  handle_call_tool and the coroutines it awaits contain no   *)
(* suspension point (every Google API call in them is a blocking call), so *)
(* an invocation keeps the event loop from its first line to its return:   *)
(* `running` is that invocation.  Requests may arrive meanwhile and wait.  *)
(***************************************************************************)
NoService == [handle |-> 0, creds |-> NoCreds, loadedValid |-> FALSE, persisted |-> FALSE]

NoCur == [name |-> "", creds |-> NoCreds, loadedValid |-> FALSE,
          refreshed |-> FALSE, authorized |-> FALSE, persisted |-> FALSE]

NoLast == [call |-> 0, name |-> "", ranInit |-> FALSE, waited |-> FALSE,
           raised |-> FALSE, content |-> <<>>,
           hasCount |-> FALSE, count |-> 0, message_id |-> 0,
           listOk |-> FALSE, listing |-> <<>>, apiOk |-> {},
           inited |-> FALSE, afterRaise |-> FALSE, at |-> ""]

InitPcs == {"init_load", "init_refresh", "init_authorize", "init_persist", "init_build"}

RequestNames == BulkTools \cup {"get_email_details", UnknownTool}

\* The count arguments a request may carry (any integer satisfies the schema).
Counts == -1..MaxList

Range(f) == { f[i] : i \in DOMAIN f }

\* The count argument of a request: absent, or an integer.
CountArgs ==
    {[hasCount |-> FALSE, count |-> 0]} \cup { [hasCount |-> TRUE, count |-> c] : c \in Counts }

\* The listings messages().list() may return: distinct ids, in any order.
Listings ==
    { l \in UNION { [1..n -> MsgIds] : n \in 0..MaxList } :
        \A i, j \in DOMAIN l : i # j => l[i] # l[j] }

\* What the backend does during one bulk call: the listing fails, or it returns
\* a listing and the detail fetch succeeds for some of the listed ids.
BackendRuns ==
    {[listOk |-> FALSE, listing |-> <<>>, apiOk |-> {}]} \cup
    { [listOk |-> TRUE, listing |-> l, apiOk |-> a] : l \in Listings, a \in SUBSET MsgIds }

ServerInit ==
    /\ service = NoService
    /\ tokenFile \in {NoCreds} \cup CredsSet
    /\ credsFile \in BOOLEAN
    /\ pc = [d \in Calls |-> "idle"]
    /\ running = 0
    /\ cur = NoCur
    /\ last = NoLast
    /\ ranInit = [d \in Calls |-> FALSE]
    /\ waited = [d \in Calls |-> FALSE]

\* A call_tool request arrives; its handler is scheduled and runs when the
\* event loop is free.
Receive(d) ==
    /\ pc[d] = "idle"
    /\ d > 1 => pc[d - 1] # "idle"
    /\ pc' = [pc EXCEPT ![d] = "pending"]
    /\ waited' = [waited EXCEPT ![d] = running # 0 /\ pc[running] \in InitPcs]
    /\ UNCHANGED <<service, tokenFile, credsFile, running, cur, last, ranInit>>
    /\ UNCHANGED <<clientVars, bodyVars>>

\* Lines 106-111 with the test of self.service dropped: every call initializes.
StartCallMutant(d) ==
    /\ running = 0
    /\ pc[d] = "pending"
    /\ running' = d
    /\ \E name \in RequestNames : cur' = [NoCur EXCEPT !.name = name]
    /\ pc' = [pc EXCEPT ![d] = "init_load"]
    /\ ranInit' = [ranInit EXCEPT ![d] = TRUE]
    /\ waited' = [e \in Calls |-> waited[e] \/ (e # d /\ pc[e] = "pending")]
    /\ last' = NoLast
    /\ UNCHANGED <<service, tokenFile, credsFile>>
    /\ UNCHANGED <<clientVars, bodyVars>>

\* handle_call_tool, lines 106-111: `if not self.service: await self._initialize_gmail()`
StartCall(d) ==
    /\ running = 0
    /\ pc[d] = "pending"
    /\ running' = d
    /\ \E name \in RequestNames : cur' = [NoCur EXCEPT !.name = name]
    /\ IF service.handle = 0
       THEN /\ pc' = [pc EXCEPT ![d] = "init_load"]
            /\ ranInit' = [ranInit EXCEPT ![d] = TRUE]
            /\ waited' = [e \in Calls |-> waited[e] \/ (e # d /\ pc[e] = "pending")]
       ELSE /\ pc' = [pc EXCEPT ![d] = "dispatch"]
            /\ UNCHANGED <<ranInit, waited>>
    /\ last' = NoLast
    /\ UNCHANGED <<service, tokenFile, credsFile>>
    /\ UNCHANGED <<clientVars, bodyVars>>

\* _initialize_gmail, line 173-174: any failure is re-raised, and leaves
\* handle_call_tool, whose try block starts after the initialization.
RaiseFromInit(d) ==
    /\ pc' = [pc EXCEPT ![d] = "done"]
    /\ running' = 0
    /\ last' = [NoLast EXCEPT !.call = d, !.name = cur.name, !.raised = TRUE,
                              !.ranInit = ranInit[d], !.waited = waited[d],
                              !.at = pc[d]]
    /\ cur' = NoCur
    /\ ranInit' = [ranInit EXCEPT ![d] = FALSE]
    /\ waited' = [waited EXCEPT ![d] = FALSE]

\* Where line 153-157 goes with the credentials loaded.
AfterLoad(c) ==
    IF NeedsAuth(c)
    THEN IF Refreshable(c) THEN "init_refresh" ELSE "init_authorize"
    ELSE "init_build"

\* Lines 143-154: load token.pickle if it exists, then branch.
InitLoad(d) ==
    /\ running = d /\ pc[d] = "init_load"
    /\ \/ /\ LET c == tokenFile
             IN /\ cur' = [cur EXCEPT !.creds = c, !.loadedValid = ~NeedsAuth(c)]
                /\ pc' = [pc EXCEPT ![d] = AfterLoad(c)]
          /\ UNCHANGED <<running, last, ranInit, waited>>
       \/ /\ tokenFile.present          \* pickle.load fails
          /\ RaiseFromInit(d)
    /\ UNCHANGED <<service, tokenFile, credsFile>>
    /\ UNCHANGED <<clientVars, bodyVars>>

\* Line 155 with a failed refresh falling through to the interactive flow.
InitRefreshFallbackMutant(d) ==
    /\ running = d /\ pc[d] = "init_refresh"
    /\ \/ /\ cur' = [cur EXCEPT !.creds = Creds(TRUE, FALSE, TRUE), !.refreshed = TRUE]
          /\ pc' = [pc EXCEPT ![d] = "init_persist"]
       \/ /\ pc' = [pc EXCEPT ![d] = "init_authorize"]
          /\ UNCHANGED cur
    /\ UNCHANGED <<running, last, ranInit, waited>>
    /\ UNCHANGED <<service, tokenFile, credsFile>>
    /\ UNCHANGED <<clientVars, bodyVars>>

\* The refresh branch with the write of token.pickle left out (as if lines
\* 166-169 belonged to the else branch only).
InitRefreshMutant(d) ==
    /\ running = d /\ pc[d] = "init_refresh"
    /\ \/ /\ cur' = [cur EXCEPT !.creds = Creds(TRUE, FALSE, TRUE), !.refreshed = TRUE]
          /\ pc' = [pc EXCEPT ![d] = "init_build"]
          /\ UNCHANGED <<running, last, ranInit, waited>>
       \/ RaiseFromInit(d)
    /\ UNCHANGED <<service, tokenFile, credsFile>>
    /\ UNCHANGED <<clientVars, bodyVars>>

\* Line 155: creds.refresh(Request())
InitRefresh(d) ==
    /\ running = d /\ pc[d] = "init_refresh"
    /\ \/ /\ cur' = [cur EXCEPT !.creds = Creds(TRUE, FALSE, TRUE), !.refreshed = TRUE]
          /\ pc' = [pc EXCEPT ![d] = "init_persist"]
          /\ UNCHANGED <<running, last, ranInit, waited>>
       \/ RaiseFromInit(d)              \* RefreshError
    /\ UNCHANGED <<service, tokenFile, credsFile>>
    /\ UNCHANGED <<clientVars, bodyVars>>

\* Lines 157-164 with the test for credentials.json (157-160) dropped.
InitAuthorizeMutant(d) ==
    /\ running = d /\ pc[d] = "init_authorize"
    /\ \/ /\ \E r \in BOOLEAN :
                cur' = [cur EXCEPT !.creds = Creds(TRUE, FALSE, r), !.authorized = TRUE]
          /\ pc' = [pc EXCEPT ![d] = "init_persist"]
          /\ UNCHANGED <<running, last, ranInit, waited>>
       \/ RaiseFromInit(d)
    /\ UNCHANGED <<service, tokenFile, credsFile>>
    /\ UNCHANGED <<clientVars, bodyVars>>

\* Lines 157-164: the interactive flow, which needs credentials.json
InitAuthorize(d) ==
    /\ running = d /\ pc[d] = "init_authorize"
    /\ \/ /\ credsFile
          /\ \E r \in BOOLEAN :
                cur' = [cur EXCEPT !.creds = Creds(TRUE, FALSE, r), !.authorized = TRUE]
          /\ pc' = [pc EXCEPT ![d] = "init_persist"]
          /\ UNCHANGED <<running, last, ranInit, waited>>
       \/ /\ ~credsFile                 \* FileNotFoundError
          /\ RaiseFromInit(d)
       \/ /\ credsFile                  \* the flow fails or is refused
          /\ RaiseFromInit(d)
    /\ UNCHANGED <<service, tokenFile, credsFile>>
    /\ UNCHANGED <<clientVars, bodyVars>>

\* Lines 167-169: write the credentials to token.pickle
InitPersist(d) ==
    /\ running = d /\ pc[d] = "init_persist"
    /\ \/ /\ tokenFile' = cur.creds
          /\ cur' = [cur EXCEPT !.persisted = TRUE]
          /\ pc' = [pc EXCEPT ![d] = "init_build"]
          /\ UNCHANGED <<running, last, ranInit, waited>>
       \/ /\ RaiseFromInit(d)           \* makedirs or open fails
          /\ UNCHANGED tokenFile
    /\ UNCHANGED <<service, credsFile>>
    /\ UNCHANGED <<clientVars, bodyVars>>

\* Line 171: self.service = build('gmail', 'v1', credentials=creds)
InitBuild(d) ==
    /\ running = d /\ pc[d] = "init_build"
    /\ \/ /\ service' = [handle |-> d, creds |-> cur.creds,
                         loadedValid |-> cur.loadedValid, persisted |-> cur.persisted]
          /\ pc' = [pc EXCEPT ![d] = "dispatch"]
          /\ UNCHANGED <<running, last, cur, ranInit, waited>>
       \/ /\ RaiseFromInit(d)           \* build fails
          /\ UNCHANGED service
    /\ UNCHANGED <<tokenFile, credsFile>>
    /\ UNCHANGED <<clientVars, bodyVars>>

\* handle_call_tool returns [TextContent(text=json.dumps(result))].
ReturnResult(d, a, message_id, b) ==
    /\ last' = [call |-> d, name |-> cur.name, ranInit |-> ranInit[d],
                waited |-> waited[d], raised |-> FALSE,
                content |-> <<DispatchTool(cur.name, a.hasCount, a.count, message_id,
                                           b.listOk, b.listing, b.apiOk)>>,
                hasCount |-> a.hasCount, count |-> a.count, message_id |-> message_id,
                listOk |-> b.listOk, listing |-> b.listing, apiOk |-> b.apiOk,
                inited |-> FALSE, afterRaise |-> FALSE, at |-> ""]
    /\ pc' = [pc EXCEPT ![d] = "done"]
    /\ running' = 0
    /\ cur' = NoCur
    /\ ranInit' = [ranInit EXCEPT ![d] = FALSE]
    /\ waited' = [waited EXCEPT ![d] = FALSE]

NoCount == [hasCount |-> FALSE, count |-> 0]
NoListing == [listOk |-> FALSE, listing |-> <<>>, apiOk |-> {}]

\* Lines 113-134: the handler of the named tool runs and its payload is
\* returned.  The arguments are first read here (line 106 only turns None
\* into {}), so the model draws them here.
Dispatch(d) ==
    /\ running = d /\ pc[d] = "dispatch"
    /\ \/ /\ cur.name \in BulkTools
          /\ \E a \in CountArgs, b \in BackendRuns :
               /\ b.apiOk \subseteq Range(b.listing)
               /\ ReturnResult(d, a, 0, b)
       \/ /\ cur.name = "get_email_details"
          /\ \E m \in {0} \cup MsgIds, ok \in BOOLEAN :
               /\ m = 0 => ~ok
               /\ ReturnResult(d, NoCount, m,
                               [NoListing EXCEPT !.apiOk = IF ok THEN {m} ELSE {}])
       \/ /\ cur.name \notin BulkTools \cup {"get_email_details"}
          /\ ReturnResult(d, NoCount, 0, NoListing)
    /\ UNCHANGED <<service, tokenFile, credsFile>>
    /\ UNCHANGED <<clientVars, bodyVars>>

\* handle_list_tools (lines 33-98): the names of the descriptors it returns,
\* in the order of the list literal.
handle_list_tools == ToolNames

\* The handler with the descriptors made to depend on the service handle.
ListToolsMutant ==
    /\ running = 0
    /\ last' = [NoLast EXCEPT !.name = "list_tools",
                              !.content = IF service.handle = 0 THEN <<>> ELSE handle_list_tools,
                              !.inited = service.handle # 0,
                              !.afterRaise = last.raised \/ last.afterRaise]
    /\ UNCHANGED <<service, tokenFile, credsFile, pc, running, cur, ranInit, waited>>
    /\ UNCHANGED <<clientVars, bodyVars>>

\* A tools/list request is served.  The handler has no await, so it runs
\* between two invocations of handle_call_tool; it reads and writes nothing of
\* the server.  last records its result (call = 0: not a tool call), whether a
\* service handle existed, and whether the result before it was a raise.
ListTools ==
    /\ running = 0
    /\ last' = [NoLast EXCEPT !.name = "list_tools",
                              !.content = handle_list_tools,
                              !.inited = service.handle # 0,
                              !.afterRaise = last.raised \/ last.afterRaise]
    /\ UNCHANGED <<service, tokenFile, credsFile, pc, running, cur, ranInit, waited>>
    /\ UNCHANGED <<clientVars, bodyVars>>

ServerNext ==
    \/ \E d \in Calls :
          \/ Receive(d)
          \/ StartCall(d)
          \/ InitLoad(d)
          \/ InitRefresh(d)
          \/ InitAuthorize(d)
          \/ InitPersist(d)
          \/ InitBuild(d)
          \/ Dispatch(d)
    \/ ListTools

(***************************************************************************)
(* The client.  connect() and disconnect() are called by the client's      *)
(* owner, one after the other; tool methods may be called by any task, at  *)
(* any time, also while connect(), disconnect() or another tool call is    *)
(* suspended at an await.                                                  *)
(*                                                                         *)
(* Resources: connect attempt k opens the stdio transport 2k-1 and the     *)
(* ClientSession 2k.  AsyncExitStack.aclose() exits every context on the   *)
(* stack and leaves the stack empty and usable.                            *)
(***************************************************************************)
ToolSlots == 1..MaxToolCalls

TransportOf(k) == 2 * k - 1
SessionOf(k) == 2 * k

NotConnectedMsg == "Cliente MCP nao esta conectado"
EmptyReplyMsg == "Resposta vazia do servidor MCP"
CallFailedMsg == "Erro ao chamar"

NoSlot == [pc |-> "idle", sess |-> 0]

\* lastCall.event: "rejected" (the guard raised), "sent" (the request went out
\* on session sess) or "returned" (an outstanding call resolved).
NoCall == [event |-> "", tool |-> "", at |-> "", sess |-> 0, cause |-> "",
           outcome |-> "", error |-> ""]

ClientInit ==
    /\ connected = FALSE
    /\ session = 0
    /\ exit_stack = <<>>
    /\ open = {}
    /\ handshaken = {}
    /\ connPc = "idle"
    /\ connAttempts = 0
    /\ discPc = "idle"
    /\ lifecycle = "Disconnected"
    /\ closedOnce = FALSE
    /\ readyToClosed = 0
    /\ disconnects = 0
    /\ lastOp = "none"
    /\ calls = [c \in ToolSlots |-> NoSlot]
    /\ lastCall = NoCall

\* connect(), line 57-59: any failure is printed and connect() returns False.
ConnectFails ==
    /\ connPc' = "idle"
    /\ lastOp' = "connect_failed"

\* Lines 34-37: spawn the server and enter the stdio transport context.
ConnectStdio ==
    /\ connPc = "idle" /\ discPc = "idle"
    /\ connAttempts < MaxConnects
    /\ connAttempts' = connAttempts + 1
    /\ \/ /\ open' = open \cup {TransportOf(connAttempts + 1)}
          /\ exit_stack' = Append(exit_stack, TransportOf(connAttempts + 1))
          /\ connPc' = "session"
          /\ UNCHANGED lastOp
       \/ /\ ConnectFails               \* the server cannot be started
          /\ UNCHANGED <<open, exit_stack>>
    /\ UNCHANGED <<connected, session, handshaken, discPc, lifecycle, closedOnce,
                   readyToClosed, disconnects, calls, lastCall>>
    /\ UNCHANGED <<serverVars, bodyVars>>

\* Lines 40-42 with the session context left off the exit stack.
ConnectSessionMutant ==
    /\ connPc = "session"
    /\ open' = open \cup {SessionOf(connAttempts)}
    /\ session' = SessionOf(connAttempts)
    /\ connPc' = "initialize"
    /\ UNCHANGED <<connected, exit_stack, handshaken, connAttempts, discPc, lifecycle,
                   closedOnce, readyToClosed, disconnects, lastOp, calls, lastCall>>
    /\ UNCHANGED <<serverVars, bodyVars>>

\* Lines 40-42: self.session = await self.exit_stack.enter_async_context(ClientSession(...))
ConnectSession ==
    /\ connPc = "session"
    /\ open' = open \cup {SessionOf(connAttempts)}
    /\ exit_stack' = Append(exit_stack, SessionOf(connAttempts))
    /\ session' = SessionOf(connAttempts)
    /\ connPc' = "initialize"
    /\ UNCHANGED <<connected, handshaken, connAttempts, discPc, lifecycle, closedOnce,
                   readyToClosed, disconnects, lastOp, calls, lastCall>>
    /\ UNCHANGED <<serverVars, bodyVars>>

\* Line 45: await self.session.initialize()
ConnectInitialize ==
    /\ connPc = "initialize"
    /\ \/ /\ handshaken' = handshaken \cup {session}
          /\ connPc' = "list_tools"
          /\ UNCHANGED lastOp
       \/ /\ ConnectFails               \* the handshake fails or is rejected
          /\ UNCHANGED handshaken
    /\ UNCHANGED <<connected, session, exit_stack, open, connAttempts, discPc, lifecycle,
                   closedOnce, readyToClosed, disconnects, calls, lastCall>>
    /\ UNCHANGED <<serverVars, bodyVars>>

\* Lines 48-55: list the tools, then self.connected = True and return True.
ConnectListTools ==
    /\ connPc = "list_tools"
    /\ \/ /\ connected' = TRUE
          /\ lifecycle' = "Ready"
          /\ connPc' = "idle"
          /\ lastOp' = "connect_ok"
       \/ /\ ConnectFails               \* list_tools fails
          /\ UNCHANGED <<connected, lifecycle>>
    /\ UNCHANGED <<session, exit_stack, open, handshaken, connAttempts, discPc,
                   closedOnce, readyToClosed, disconnects, calls, lastCall>>
    /\ UNCHANGED <<serverVars, bodyVars>>

\* disconnect() returning with line 65 left out: self.connected keeps its value.
DisconnectReturnsMutant ==
    /\ UNCHANGED connected
    /\ discPc' = "idle"
    /\ lifecycle' = "Closed"
    /\ closedOnce' = TRUE
    /\ readyToClosed' = readyToClosed + (IF lifecycle = "Ready" THEN 1 ELSE 0)
    /\ disconnects' = disconnects + 1
    /\ lastOp' = "disconnect"

\* disconnect() returns: line 65, self.connected = False
DisconnectReturns ==
    /\ connected' = FALSE
    /\ discPc' = "idle"
    /\ lifecycle' = "Closed"
    /\ closedOnce' = TRUE
    /\ readyToClosed' = readyToClosed + (IF lifecycle = "Ready" THEN 1 ELSE 0)
    /\ disconnects' = disconnects + 1
    /\ lastOp' = "disconnect"

\* disconnect(), line 63-64: await self.exit_stack.aclose().  With contexts on
\* the stack the call suspends while they exit; with none it does not.
DisconnectClose ==
    /\ connPc = "idle" /\ discPc = "idle"
    /\ disconnects < MaxDisconnects
    /\ open' = open \ Range(exit_stack)
    /\ exit_stack' = <<>>
    /\ \/ /\ exit_stack # <<>>
          /\ discPc' = "closed"
          /\ UNCHANGED <<connected, lifecycle, closedOnce, readyToClosed, disconnects, lastOp>>
       \/ /\ exit_stack = <<>>
          /\ DisconnectReturns
    /\ UNCHANGED <<session, handshaken, connPc, connAttempts, calls, lastCall>>
    /\ UNCHANGED <<serverVars, bodyVars>>

DisconnectFinish ==
    /\ discPc = "closed"
    /\ DisconnectReturns
    /\ UNCHANGED <<session, exit_stack, open, handshaken, connPc, connAttempts, calls,
                   lastCall>>
    /\ UNCHANGED <<serverVars, bodyVars>>

\* The guard with the test of self.connected dropped.
NotConnectedMutant == session = 0

\* Line 69 (90, 110, 130): `not self.connected or not self.session`
NotConnected == ~connected \/ session = 0

\* A tool method is called (lines 67-76 and the three like it): it raises when
\* the guard fails, and otherwise sends the request on self.session and
\* suspends until the call resolves.
CallTool(c, tool) ==
    /\ calls[c].pc = "idle"
    /\ c > 1 => calls[c - 1].pc # "idle"
    /\ IF NotConnected
       THEN /\ calls' = [calls EXCEPT ![c] = [NoSlot EXCEPT !.pc = "done"]]
            /\ lastCall' = [event |-> "rejected", tool |-> tool, at |-> lifecycle,
                            sess |-> 0, cause |-> "not_connected", outcome |-> "raised",
                            error |-> NotConnectedMsg]
       ELSE /\ calls' = [calls EXCEPT ![c] = [pc |-> "outstanding", sess |-> session]]
            /\ lastCall' = [event |-> "sent", tool |-> tool, at |-> lifecycle,
                            sess |-> session, cause |-> "", outcome |-> "", error |-> ""]
    /\ UNCHANGED <<connected, session, exit_stack, open, handshaken, connPc, connAttempts,
                   discPc, lifecycle, closedOnce, readyToClosed, disconnects, lastOp>>
    /\ UNCHANGED <<serverVars, bodyVars>>

\* The method returns (lines 79-86).
CallReturns(c, cause, outcome, error) ==
    /\ calls' = [calls EXCEPT ![c] = [NoSlot EXCEPT !.pc = "done"]]
    /\ lastCall' = [event |-> "returned", tool |-> "", at |-> lifecycle,
                    sess |-> calls[c].sess, cause |-> cause, outcome |-> outcome,
                    error |-> error]

\* Lines 85-86: `except Exception as e: return {"error": ...}`
CallFailsWith(c, cause) == CallReturns(c, cause, "returned_error", CallFailedMsg)

\* The server's reply arrives on an open session (lines 79-83): content that
\* decodes as JSON, no content, or content json.loads rejects.
Reply(c) ==
    /\ calls[c].pc = "outstanding"
    /\ calls[c].sess \in open \cap handshaken
    /\ \/ CallReturns(c, "reply", "returned_payload", "")
       \/ CallReturns(c, "empty_reply", "returned_error", EmptyReplyMsg)
       \/ CallFailsWith(c, "bad_reply")
    /\ UNCHANGED <<connected, session, exit_stack, open, handshaken, connPc, connAttempts,
                   discPc, lifecycle, closedOnce, readyToClosed, disconnects, lastOp>>
    /\ UNCHANGED <<serverVars, bodyVars>>

\* session.call_tool raises: the connection broke, the session is closed, or
\* the server rejected the request.
CallFails(c) ==
    /\ calls[c].pc = "outstanding"
    /\ CallFailsWith(c, "transport_failure")
    /\ UNCHANGED <<connected, session, exit_stack, open, handshaken, connPc, connAttempts,
                   discPc, lifecycle, closedOnce, readyToClosed, disconnects, lastOp>>
    /\ UNCHANGED <<serverVars, bodyVars>>

ClientNext ==
    \/ ConnectStdio
    \/ ConnectSession
    \/ ConnectInitialize
    \/ ConnectListTools
    \/ DisconnectClose
    \/ DisconnectFinish
    \/ \E c \in ToolSlots : \E i \in 1..Len(ToolNames) : CallTool(c, ToolNames[i])
    \/ \E c \in ToolSlots : Reply(c)
    \/ \E c \in ToolSlots : CallFails(c)

(***************************************************************************)
(* Body extraction on its own: every payload of at most MaxParts parts,    *)
(* built from the leaves below and from multipart containers.              *)
(***************************************************************************)
BodyLeaves ==
    { Leaf("text/plain", FALSE, <<>>),
      Leaf("text/plain", TRUE, DataHello),
      Leaf("text/plain", TRUE, DataNlI),
      Leaf("text/plain", TRUE, DataSpace),
      Leaf("text/plain", TRUE, DataLatin1),
      Leaf("text/html", TRUE, DataHello) }

RECURSIVE TreesOfSize(_)
RECURSIVE ForestsOfSize(_)
\* The payloads with exactly n parts.
TreesOfSize(n) ==
    IF n = 1 THEN BodyLeaves \cup {Multipart("multipart/mixed", <<>>)}
    ELSE { Multipart("multipart/mixed", f) : f \in ForestsOfSize(n - 1) }

\* The sequences of payloads with n parts in all.
ForestsOfSize(n) ==
    IF n = 0 THEN {<<>>}
    ELSE UNION { { <<t>> \o f : t \in TreesOfSize(k), f \in ForestsOfSize(n - k) } :
                 k \in 1..n }

\* All of them, and the payloads of the backend's messages.
Payloads ==
    UNION { TreesOfSize(n) : n \in 1..MaxParts } \cup { MessagePayload(m) : m \in MsgIds }

NotExtracted == [called |-> FALSE, raised |-> FALSE, text |-> <<>>]

BodyIdle ==
    /\ payload = Leaf("text/plain", FALSE, <<>>)
    /\ body = NotExtracted

BodyInit ==
    /\ payload \in Payloads
    /\ body = NotExtracted

\* body = self._extract_body(message['payload'])   (line 267)
ExtractBodyCall ==
    /\ ~body.called
    /\ body' = [called |-> TRUE, raised |-> ExtractBody(payload).raised,
                text |-> ExtractBody(payload).text]
    /\ UNCHANGED payload
    /\ UNCHANGED <<serverVars, clientVars>>

(***************************************************************************)
(* The specifications.                                                     *)
(***************************************************************************)
ServerIdle ==
    /\ service = NoService
    /\ tokenFile = NoCreds
    /\ credsFile = FALSE
    /\ pc = [d \in Calls |-> "idle"]
    /\ running = 0
    /\ cur = NoCur
    /\ last = NoLast
    /\ ranInit = [d \in Calls |-> FALSE]
    /\ waited = [d \in Calls |-> FALSE]

Init == ServerInit /\ ClientInit /\ BodyIdle
Next == ServerNext
Spec == Init /\ [][Next]_vars

InitClient == ServerIdle /\ ClientInit /\ BodyIdle
NextClient == ClientNext
SpecClient == InitClient /\ [][NextClient]_vars

\* The client under the scheduling the event loop gives it: a connect() or a
\* disconnect() that is suspended at an await is resumed (with success or with
\* failure).  Nothing in the client bounds the wait of a tool call: line 72
\* passes no timeout and is not wrapped in one, so a suspended tool call is
\* resumed only by the session, when a reply or a failure arrives.
ClientScheduled ==
    ConnectSession \/ ConnectInitialize \/ ConnectListTools \/ DisconnectFinish
SpecClientLive == InitClient /\ [][NextClient]_vars /\ WF_vars(ClientScheduled)

InitBody == ServerIdle /\ ClientInit /\ BodyInit
NextBody == ExtractBodyCall
SpecBody == InitBody /\ [][NextBody]_vars

(***************************************************************************)
(* Properties of the server (checked under Spec).                          *)
(***************************************************************************)
IsErrorPayload(p) == p.keys = {"error"}
IsSuccessPayload(p) == "error" \notin p.keys

\* C1: handle_call_tool never raises: whatever the tool name, the arguments
\* and the outcome of credential loading, refresh, authorization and backend
\* calls, it returns one content block holding a success or an {error}
\* payload; in particular a failed lazy initialization becomes an {error}
\* payload.
C1_DispatchNeverRaises ==
    last.call # 0 =>
        /\ ~last.raised
        /\ Len(last.content) = 1
        /\ IsErrorPayload(last.content[1]) \/ IsSuccessPayload(last.content[1])

\* C2: initialization runs at most once per race: never two initializations
\* in progress, and an invocation that was waiting while another one
\* initialized takes that one's outcome and does not run the credential
\* sequence itself.
C2_InitOncePerRace ==
    /\ Cardinality({ d \in Calls : pc[d] \in InitPcs }) <= 1
    /\ \A d \in Calls : ranInit[d] => ~waited[d]

\* C3: a run that refreshed the credentials or obtained new ones has written
\* them to token.pickle before the service handle is set; so wherever a handle
\* exists, its credentials were valid as loaded or were persisted in that run,
\* and token.pickle holds them.
C3_PersistBeforeHandle ==
    /\ \A d \in Calls :
          pc[d] = "init_build" /\ (cur.refreshed \/ cur.authorized) =>
              cur.persisted /\ tokenFile = cur.creds
    /\ service.handle # 0 =>
          /\ service.loadedValid \/ service.persisted
          /\ tokenFile = service.creds

\* A handle built from credentials that were not valid as loaded.
C3_Witness ==
    service.handle # 0 /\ service.persisted /\ ~service.loadedValid

\* The ids of a sequence of emails.
EmailIds(emails) == [i \in DOMAIN emails |-> emails[i].id]

\* The detail fetch of message m succeeded: _get_email_details returned an
\* Email and not an {error} payload.
FetchSucceeded(m, apiOk) == "error" \notin GetEmailDetails(m, apiOk).keys

\* The listed ids whose detail fetch succeeded, in the listing's order.
FetchedOf(listing, apiOk) == SelectSeq(listing, LAMBDA m : FetchSucceeded(m, apiOk))

BulkReturned == last.call # 0 /\ ~last.raised /\ last.name \in BulkTools /\ last.listOk

RecentCount == IF last.hasCount THEN last.count ELSE DefaultRecentCount
RecentKept ==
    IF RecentCount >= Len(last.listing) THEN Len(last.listing)
    ELSE IF RecentCount >= 0 THEN RecentCount
    ELSE IF Len(last.listing) + RecentCount > 0 THEN Len(last.listing) + RecentCount
    ELSE 0

RECURSIVE PlainDataParts(_, _)
\* The text/plain parts of p that carry inline data, in depth-first document
\* order, each with its depth below the payload handed to _extract_body.
PlainDataParts(p, depth) ==
    LET RECURSIVE Over(_, _)
        Over(parts, i) ==
            IF i > Len(parts) THEN <<>>
            ELSE PlainDataParts(parts[i], depth + 1) \o Over(parts, i + 1)
    IN IF p.hasParts THEN Over(p.parts, 1)
       ELSE IF p.mimeType = "text/plain" /\ p.hasData
            THEN <<[data |-> p.data, depth |-> depth]>>
       ELSE <<>>

FirstPlain == PlainDataParts(payload, 0)[1]
FirstPlainDecodes == ~DecodeData(FirstPlain.data).raised
FirstPlainText == Strip(DecodeData(FirstPlain.data).text)

\* C5 as stated: _extract_body returns the trimmed decoding of the first
\* text/plain part with inline data, in depth-first document order, and the
\* empty string if there is none.
C5_FirstPlainLeaf ==
    body.called =>
        /\ PlainDataParts(payload, 0) = <<>> => body = [called |-> TRUE, raised |-> FALSE, text |-> <<>>]
        /\ PlainDataParts(payload, 0) # <<>> /\ FirstPlainDecodes =>
              body = [called |-> TRUE, raised |-> FALSE, text |-> FirstPlainText]

\* C5 as amended: the first such part wins when its trimmed decoding is not
\* empty, or when it is the payload itself or one of its direct children; a
\* nested multipart that yields the empty string is passed over and the scan
\* goes on with its next sibling.  What is returned is the empty string or the
\* trimmed decoding of one single part, and the empty string if no text/plain
\* part carries data.
C5_FirstNonEmptyPlainLeaf ==
    body.called =>
        LET P == PlainDataParts(payload, 0) IN
        /\ P = <<>> => ~body.raised /\ body.text = <<>>
        /\ P # <<>> /\ FirstPlainDecodes /\ (FirstPlainText # <<>> \/ FirstPlain.depth <= 1) =>
              ~body.raised /\ body.text = FirstPlainText
        /\ ~body.raised =>
              \/ body.text = <<>>
              \/ \E i \in DOMAIN P :
                    /\ ~DecodeData(P[i].data).raised
                    /\ body.text = Strip(DecodeData(P[i].data).text)

\* The first plain part lies in a nested multipart and is blank, and the body
\* returned is that of a later part.
C5_Witness ==
    /\ body.called /\ ~body.raised
    /\ Len(PlainDataParts(payload, 0)) >= 2
    /\ FirstPlain.depth >= 2 /\ FirstPlainDecodes /\ FirstPlainText = <<>>
    /\ body.text # <<>>

C7_ClosedIsTerminal ==
    /\ closedOnce => lifecycle # "Ready"
    /\ readyToClosed <= 1

\* C8: once disconnect() has returned, nothing that an earlier connect()
\* opened is still open, whichever way those connects ended; and whatever is
\* open is on the exit stack.
C8_DisconnectReleasesAll ==
    /\ lastOp = "disconnect" /\ connPc = "idle" => open = {}
    /\ open \subseteq Range(exit_stack)

\* disconnect() has returned after a connect that succeeded and a later one
\* that failed in the handshake.
C8_Witness ==
    /\ lastOp = "disconnect" /\ connPc = "idle"
    /\ connAttempts >= 2
    /\ handshaken # {} /\ session # 0 /\ session \notin handshaken

\* C9: a transport failure during an outstanding tool call is raised to the
\* caller of the tool method, never returned as an ordinary value.
C9_TransportFailureRaised ==
    lastCall.event = "returned" /\ lastCall.cause = "transport_failure" =>
        lastCall.outcome = "raised"

\* C11: every tool call sent on a Ready session eventually resolves, by a
\* reply or, when none arrives within a bounded interval, by a timeout error
\* (what becomes of a call whose session is closed under it is C10's matter).
C11_CallEventuallyResolves ==
    \A c \in ToolSlots :
        (calls[c].pc = "outstanding") ~>
            (calls[c].pc = "done" \/ calls[c].sess \notin open)

\* C12: on one client at most one tool call is in flight at any time; a second
\* caller is queued or rejected until the first call has resolved.
C12_OneCallInFlight ==
    Cardinality({ c \in ToolSlots : calls[c].pc = "outstanding" }) <= 1

(***************************************************************************)
(* Further properties of the server (checked under Spec).                  *)
(***************************************************************************)
\* The last dispatch returned, and every backend call it made succeeded.
HealthyReturn ==
    /\ last.call # 0 /\ ~last.raised
    /\ last.name \in BulkTools => last.listOk /\ Range(last.listing) \subseteq last.apiOk
    /\ last.name = "get_email_details" => last.message_id \in last.apiOk

\* C13: for each of the four registered tools, a dispatch with conforming
\* arguments against a healthy backend returns a payload with success:true.
C13_HealthySuccessTrue ==
    HealthyReturn /\ last.name \in Range(ToolNames) =>
        /\ "success" \in last.content[1].keys
        /\ last.content[1].success

\* C14: the tool name is looked up before anything else: a call naming an
\* unregistered tool returns the unknown-tool {error} payload without running
\* any step of the initialization, which only a registered name triggers.
C14_LookupBeforeInit ==
    /\ \A d \in Calls : pc[d] \in InitPcs => cur.name \in Range(ToolNames)
    /\ last.call # 0 /\ last.name \notin Range(ToolNames) =>
          /\ ~last.ranInit /\ ~last.raised
          /\ IsErrorPayload(last.content[1])

\* C15: once a service handle exists, no step of any later dispatch runs the
\* initialization again, replaces the handle or rewrites the token storage.
C15_NoReinit ==
    [][service.handle # 0 =>
          /\ service' = service
          /\ tokenFile' = tokenFile
          /\ \A d \in Calls : pc'[d] \notin InitPcs]_vars

\* A dispatch other than the one that built the handle has returned, with the
\* handle in place and without having run the initialization.
C15_Witness ==
    /\ service.handle # 0
    /\ last.call # 0 /\ last.call # service.handle
    /\ ~last.raised /\ ~last.ranInit

\* An initialization run that found no token file stands before the
\* authorization branch (the token file is written by InitPersist only, so
\* it is absent now iff it was absent when the run loaded it) and
\* takes its next step.
NoTokenRun(d) ==
    /\ running = d /\ pc[d] = "init_authorize" /\ ~tokenFile.present
    /\ pc'[d] # pc[d]

\* The run of call d ends here by raising, with no handle and no token write.
InitFailsHere(d) ==
    /\ last'.call = d /\ last'.raised
    /\ service'.handle = 0
    /\ tokenFile' = tokenFile

\* C16 as stated: with no token file, initialization fails: no service handle
\* is created and no token file is written.
C16_NoTokenFails ==
    [][\A d \in Calls : NoTokenRun(d) => InitFailsHere(d)]_vars

\* C16 as amended: with no token file and no credentials.json the
\* initialization fails, creating no handle and writing no token; with
\* credentials.json present it runs the interactive authorization and fails
\* only if that fails, going on to write the token file otherwise.
C16_NoTokenNoSecretsFails ==
    [][\A d \in Calls : NoTokenRun(d) =>
          IF credsFile THEN InitFailsHere(d) \/ (pc'[d] = "init_persist" /\ cur'.authorized)
          ELSE InitFailsHere(d)]_vars

\* An initialization has failed with neither a token file nor credentials.json.
C16_Witness ==
    /\ last.call # 0 /\ last.raised /\ last.ranInit
    /\ ~tokenFile.present /\ ~credsFile
    /\ service.handle = 0

\* The count the last bulk call worked with: the argument, or the default of
\* its tool (lines 115, 119, 124).
EffectiveCount ==
    IF last.hasCount THEN last.count
    ELSE IF last.name = "get_recent_emails" THEN DefaultRecentCount
    ELSE IF last.name = "get_unread_emails" THEN DefaultUnreadCount
    ELSE DefaultSearchCount

\* C17: every bulk operation returns at most count emails (count >= 0),
\* whatever the backend listed, also when it listed more than count ids.
C17_AtMostCount ==
    BulkReturned /\ EffectiveCount >= 0 =>
        Len(last.content[1].emails) <= EffectiveCount

(***************************************************************************)
(* The extraction examples (checked under SpecBody).                       *)
(***************************************************************************)
ExampleMultipart == MessagePayload(1)
ExampleSinglePart == Leaf("text/plain", TRUE, DataHello)

TextHello == <<72, 101, 108, 108, 111>>     \* "Hello"
TextOi == <<111, 105>>                      \* "oi"
TextI == <<105>>                            \* "i"

\* C18 as stated: the multipart example (multipart/alternative holding only
\* text/html, then text/plain with data "Cmk=") yields "oi", and the
\* single-part text/plain message with data "SGVsbG8=" yields "Hello".
C18_ExamplesOi ==
    body.called =>
        /\ payload = ExampleMultipart => ~body.raised /\ body.text = TextOi
        /\ payload = ExampleSinglePart => ~body.raised /\ body.text = TextHello

\* C18 as amended: "Cmk=" is the base64 of a line feed followed by "i", so
\* the multipart example yields "i"; the single-part example yields "Hello".
C18_ExamplesI ==
    body.called =>
        /\ payload = ExampleMultipart => ~body.raised /\ body.text = TextI
        /\ payload = ExampleSinglePart => ~body.raised /\ body.text = TextHello

\* The body of the multipart example has been extracted.
C18_Witness ==
    body.called /\ payload = ExampleMultipart /\ body.text = TextI

(***************************************************************************)
(* Further properties of the client (checked under SpecClient).            *)
(***************************************************************************)
\* C19: tool traffic only goes over a session whose handshake completed:
\* whenever the client accepts a tool call, after any sequence of connect()
\* and disconnect() calls, the session it sends the call on has completed
\* initialize and is still open.
C19_HandshakeBeforeTraffic ==
    [][\A c \in ToolSlots :
          calls[c].pc = "idle" /\ calls'[c].pc = "outstanding" =>
              calls'[c].sess \in handshaken \cap open]_vars

\* C20: in every client state and for every outcome of the session call, a
\* tool method returns the decoded payload or a mapping holding an 'error'
\* string; it does not raise.
C20_ClientNeverRaises ==
    lastCall.event \in {"rejected", "returned"} =>
        lastCall.outcome \in {"returned_payload", "returned_error"}

\* disconnect() was the last of connect() and disconnect() to return, and
\* neither is in progress.
Disconnected == lastOp = "disconnect" /\ connPc = "idle" /\ discPc = "idle"

\* C21: disconnect() is idempotent and safe in every client state: on a client
\* never connected, after a failed connect, and a second time after an earlier
\* disconnect, it completes and leaves the client not connected with nothing
\* open, as a single call does.
C21_DisconnectIdempotent ==
    Disconnected =>
        /\ ~connected
        /\ lifecycle = "Closed"
        /\ open = {} /\ exit_stack = <<>>
        /\ NotConnected

\* disconnect() has returned for the second time, on a client whose only
\* connect() failed after it had opened the transport and the session.
C21_Witness ==
    /\ Disconnected
    /\ disconnects = 2
    /\ connAttempts = 1 /\ handshaken = {} /\ session # 0

(***************************************************************************)
(* Listing the tools (checked under Spec).                                 *)
(***************************************************************************)
\* C22: every call of the list-tools handler, before or after the
\* initialization and before or after any tool call, failed or not, returns
\* the same four descriptors in registration order, and triggers no
\* initialization: none is in progress after it and the service handle is as
\* it was.
C22_ListToolsSame ==
    last.name = "list_tools" =>
        /\ last.content = <<"get_recent_emails", "get_unread_emails",
                            "search_emails", "get_email_details">>
        /\ running = 0
        /\ \A d \in Calls : pc[d] \notin InitPcs
        /\ last.inited = (service.handle # 0)

\* The tools were listed after a tool call had failed in the initialization,
\* with no service handle yet.
C22_Witness ==
    last.name = "list_tools" /\ last.afterRaise /\ ~last.inited /\ last.content # <<>>

(***************************************************************************)
(* A refresh that fails (checked under Spec).                              *)
(***************************************************************************)
\* C23: when the stored credentials are expired and carry a refresh token and
\* the refresh fails, the initialization fails without falling back to the
\* interactive authorization (which only credentials that cannot be refreshed
\* reach); the token file is not rewritten, the service handle stays unset,
\* and a call that runs without a handle initializes again.
C23_RefreshFailureNoFallback ==
    /\ \A d \in Calls : pc[d] = "init_authorize" => ~Refreshable(tokenFile)
    /\ last.raised /\ last.at = "init_refresh" =>
          /\ service.handle = 0
          /\ Refreshable(tokenFile) /\ NeedsAuth(tokenFile)
    /\ running # 0 /\ service.handle = 0 => pc[running] \in InitPcs

\* The first call has failed in the refresh, with credentials.json at hand
\* for a fallback that was not taken, and the next call is waiting to run.
C23_Witness ==
    /\ last.call = 1 /\ last.raised /\ last.at = "init_refresh"
    /\ credsFile /\ Refreshable(tokenFile)
    /\ service.handle = 0 /\ pc[2] = "pending"

(***************************************************************************)
(* The shape of a result (checked under Spec).                             *)
(***************************************************************************)
\* C24: every result handle_call_tool returns carries exactly one content
\* block, whose payload is a success payload or an error payload and never
\* both: with an 'error' key it has neither success:true nor 'emails', and a
\* bulk payload with success:true has no 'error' key, whatever the tool name
\* and the outcomes of the listing and of the detail fetches.
C24_OneBlockSuccessOrError ==
    last.call # 0 /\ ~last.raised =>
        /\ Len(last.content) = 1
        /\ "error" \in last.content[1].keys =>
              /\ last.content[1].keys = {"error"}
              /\ ~last.content[1].success
              /\ last.content[1].emails = <<>>
        /\ last.name \in BulkTools /\ last.content[1].success =>
              /\ "error" \notin last.content[1].keys
              /\ {"success", "emails"} \subseteq last.content[1].keys
        /\ last.name \in BulkTools =>
              (last.listOk <=> last.content[1].success)

\* A bulk call whose listing failed has returned its {error} payload.
C24_Witness ==
    /\ last.call # 0 /\ ~last.raised
    /\ last.name \in BulkTools /\ ~last.listOk
    /\ Len(last.content) = 1 /\ "error" \in last.content[1].keys

====
